---- MODULE Spec2Model ----
(***************************************************************************)
(* Model of scripts/generate_docs.py: the rustdoc normalizer               *)
(* (clean_rustdoc, format_rustdoc_to_markdown), the regex extractor        *)
(* (extract_from_file), scan_component, the renderer                       *)
(* (generate_mdx_from_rustdata), scan_directory and main.                  *)
(*                                                                         *)
(* Text is a sequence of lines ("" is the empty sequence of lines); a line *)
(* is a sequence of one-character strings, so that strip, lstrip with a    *)
(* character set, startswith, "in" and replace are computed as Python      *)
(* computes them.                                                          *)
(***************************************************************************)
EXTENDS Integers, Sequences, FiniteSets, TLC

VARIABLES
    \* normalizer run: clean_rustdoc, then the loop of format_rustdoc_to_markdown
    nIn, nPc, nClean, nI, code_block, nOut,
    \* struct body parse: the field loop of extract_from_file
    fBody, fPc, fI, fields,
    \* component run: scan_component, then generate_mdx_from_rustdata
    dir, dPc, toScan, combined_data, constructors, other_funcs, mdx, report,
    \* main: the index pages, then scan_directory per category; calls is the
    \* sequence of the scan_directory calls made so far, each with its outcome
    srcTree, outDirs, outFiles, mPc, calls

normVars == <<nIn, nPc, nClean, nI, code_block, nOut>>
fieldVars == <<fBody, fPc, fI, fields>>
docVars == <<dir, dPc, toScan, combined_data, constructors, other_funcs, mdx, report>>
mainVars == <<srcTree, outDirs, outFiles, mPc, calls>>
vars == <<normVars, fieldVars, docVars, mainVars>>

(***************************************************************************)
(* Bounds of the model.                                                    *)
(***************************************************************************)
MaxLines == 3
MaxBodyLines == 3
MaxItems == 2
MaxFiles == 2
MaxFuncs == 3
MaxMethods == 1

(***************************************************************************)
(* Python str operations on sequences of characters.                      *)
(***************************************************************************)
WS == {" ", "\t"}

RECURSIVE LStripSet(_, _)
\* str.lstrip(chars): drops leading characters while they belong to the SET chars
LStripSet(s, chars) ==
    IF s # <<>> /\ Head(s) \in chars THEN LStripSet(Tail(s), chars) ELSE s

RECURSIVE RStripSet(_, _)
RStripSet(s, chars) ==
    IF s # <<>> /\ s[Len(s)] \in chars
    THEN RStripSet(SubSeq(s, 1, Len(s) - 1), chars) ELSE s

\* str.strip()
Strip(s) == RStripSet(LStripSet(s, WS), WS)

\* str.startswith(p)
StartsWith(s, p) == Len(s) >= Len(p) /\ SubSeq(s, 1, Len(p)) = p

\* p in s
Contains(s, p) ==
    \E i \in 1..(Len(s) - Len(p) + 1) : SubSeq(s, i, i + Len(p) - 1) = p

RECURSIVE Replace(_, _, _)
\* str.replace(old, new): leftmost, non-overlapping, the result is not rescanned
Replace(s, old, new) ==
    IF Len(s) < Len(old) THEN s
    ELSE IF SubSeq(s, 1, Len(old)) = old
         THEN new \o Replace(SubSeq(s, Len(old) + 1, Len(s)), old, new)
         ELSE <<Head(s)>> \o Replace(Tail(s), old, new)

RECURSIVE Repeat(_, _)
\* c * n
Repeat(c, n) == IF n <= 0 THEN <<>> ELSE <<c>> \o Repeat(c, n - 1)

RECURSIVE MapSeq(_, _)
MapSeq(Op(_), s) == IF s = <<>> THEN <<>> ELSE <<Op(Head(s))>> \o MapSeq(Op, Tail(s))

RECURSIVE FilterSeq(_, _)
FilterSeq(Keep(_), s) ==
    IF s = <<>> THEN <<>>
    ELSE (IF Keep(Head(s)) THEN <<Head(s)>> ELSE <<>>) \o FilterSeq(Keep, Tail(s))

\* all sequences over S of length at most n
SeqsUpTo(S, n) == UNION {[1..k -> S] : k \in 0..n}

(***************************************************************************)
(* Literals used by the source.                                            *)
(***************************************************************************)
ModMarker == <<"/", "/", "!">>
DocMarker == <<"/", "/", "/">>
\* "bq" stands for the backquote character
Fence == <<"bq", "bq", "bq">>
Rust == <<"r", "u", "s", "t">>
RustNoRun == Rust \o <<",", "n", "o", "_", "r", "u", "n">>
RustIgnore == Rust \o <<",", "i", "g", "n", "o", "r", "e">>

(***************************************************************************)
(* clean_rustdoc                                                           *)
(***************************************************************************)
KeepLine(l) == l # <<>>

\* one iteration of the loop of clean_rustdoc
CleanLine(line) ==
    IF StartsWith(Strip(line), ModMarker)
    THEN Strip(LStripSet(line, {"/", "!", " "}))
    ELSE IF StartsWith(Strip(line), DocMarker)
         THEN Strip(LStripSet(line, {"/", " "}))
         ELSE Strip(line)

clean_rustdoc(doc_string) ==
    IF doc_string = <<>> THEN <<>>
    ELSE FilterSeq(KeepLine, MapSeq(CleanLine, doc_string))

(***************************************************************************)
(* format_rustdoc_to_markdown                                              *)
(***************************************************************************)
\* the mutants: the heading / list rule without its "not code_block" guard
IsHeading_anywhere(stripped, cb) == StartsWith(stripped, <<"#">>)
IsStarItem_anywhere(stripped, cb) == StartsWith(stripped, <<"*">>)

IsFenceLine(stripped) == StartsWith(stripped, Fence)
IsHeading(stripped, cb) == StartsWith(stripped, <<"#">>) /\ ~cb
IsDashItem(stripped, cb) == StartsWith(stripped, <<"-">>) /\ ~cb
IsStarItem(stripped, cb) == StartsWith(stripped, <<"*">>) /\ ~cb
IsLink(stripped) ==
    StartsWith(stripped, <<"[">>) /\ Contains(stripped, <<"]">>)
    /\ Contains(stripped, <<"(">>)

\* the fence branch: the rewritten fence line, or the line itself
FenceLine(line) ==
    LET stripped == Strip(line) IN
    IF Contains(stripped, RustNoRun) \/ Contains(stripped, RustIgnore)
    THEN Replace(Replace(stripped, RustNoRun, Rust), RustIgnore, Rust)
    ELSE line

HeadingLine(stripped) ==
    LET body == LStripSet(stripped, {"#"})
        level == Len(stripped) - Len(body)
    IN Repeat("#", level + 1) \o <<" ">> \o Strip(body)

\* the body of the loop: the line appended for `line` with the flag cb set on entry
FormatLine(line, cb) ==
    LET stripped == Strip(line) IN
    IF IsFenceLine(stripped) THEN FenceLine(line)
    ELSE IF stripped = <<>> THEN <<>>
    ELSE IF IsHeading(stripped, cb) THEN HeadingLine(stripped)
    ELSE IF IsDashItem(stripped, cb) THEN line
    ELSE IF IsStarItem(stripped, cb) THEN <<"-">> \o Tail(stripped)
    ELSE IF IsLink(stripped) THEN line
    ELSE IF ~cb THEN line
    ELSE line

\* the flag after the line
NextCodeBlock(line, cb) == IF IsFenceLine(Strip(line)) THEN ~cb ELSE cb

RECURSIVE FormatFrom(_, _)
FormatFrom(lines, cb) ==
    IF lines = <<>> THEN <<>>
    ELSE <<FormatLine(Head(lines), cb)>>
         \o FormatFrom(Tail(lines), NextCodeBlock(Head(lines), cb))

format_rustdoc_to_markdown(doc_text) ==
    IF doc_text = <<>> THEN <<>> ELSE FormatFrom(doc_text, FALSE)

\* the normalizer: Stage A, then Stage B on its output
Normalize(x) == format_rustdoc_to_markdown(clean_rustdoc(x))

(***************************************************************************)
(* The normalizer run: clean_rustdoc on a raw comment block, then the loop *)
(* of format_rustdoc_to_markdown, one line per step.                       *)
(***************************************************************************)
\* "//! " followed by content
ModLine(content) == ModMarker \o <<" ">> \o content

\* the raw comment lines the run draws its input from
LineSet ==
    { ModLine(<<"a">>),
      ModLine(<<"!", "a">>),
      ModMarker,
      ModLine(<<"#", " ", "a">>),
      ModLine(<<"*", " ", "a">>),
      ModLine(<<"-", " ", "a">>),
      ModLine(Fence),
      ModLine(Fence \o RustNoRun),
      ModLine(Fence \o RustIgnore \o <<",", "n", "o", "_", "r", "u", "n">>),
      DocMarker \o <<" ", "a">>,
      <<"\t">> \o DocMarker \o <<" ", "a">> }

NormIdle ==
    /\ nIn = <<>> /\ nPc = "idle" /\ nClean = <<>> /\ nI = 1
    /\ code_block = FALSE /\ nOut = <<>>

InitNorm_own ==
    /\ nIn \in SeqsUpTo(LineSet, MaxLines)
    /\ nPc = "clean"
    /\ nClean = <<>>
    /\ nI = 1
    /\ code_block = FALSE
    /\ nOut = <<>>

\* module_doc = clean_rustdoc(...)
NormClean ==
    /\ nPc = "clean"
    /\ nClean' = clean_rustdoc(nIn)
    /\ nPc' = "format"
    /\ UNCHANGED <<nIn, nI, code_block, nOut>>
    /\ UNCHANGED <<fieldVars, docVars, mainVars>>

\* format_rustdoc_to_markdown: "if not doc_text: return ''"
FormatEmpty ==
    /\ nPc = "format"
    /\ nClean = <<>>
    /\ nPc' = "done"
    /\ UNCHANGED <<nIn, nClean, nI, code_block, nOut>>
    /\ UNCHANGED <<fieldVars, docVars, mainVars>>

\* one iteration of "for line in doc_text.split('\n')"
FormatStep ==
    /\ nPc = "format"
    /\ nI <= Len(nClean)
    /\ nOut' = Append(nOut, FormatLine(nClean[nI], code_block))
    /\ code_block' = NextCodeBlock(nClean[nI], code_block)
    /\ nI' = nI + 1
    /\ UNCHANGED <<nIn, nPc, nClean>>
    /\ UNCHANGED <<fieldVars, docVars, mainVars>>

\* return "\n".join(lines)
FormatReturn ==
    /\ nPc = "format"
    /\ nClean # <<>>
    /\ nI > Len(nClean)
    /\ nPc' = "done"
    /\ UNCHANGED <<nIn, nClean, nI, code_block, nOut>>
    /\ UNCHANGED <<fieldVars, docVars, mainVars>>

(***************************************************************************)
(* extract_from_file: the field loop over a struct body.                   *)
(***************************************************************************)
\* the characters \w matches, among those the model uses
WordChars ==
    {"a", "b", "m", "n", "p", "u", "H", "S", "_"}

RECURSIVE TakeWhileIn(_, _)
\* the longest prefix of s made of characters of `chars`
TakeWhileIn(s, chars) ==
    IF s # <<>> /\ Head(s) \in chars
    THEN <<Head(s)>> \o TakeWhileIn(Tail(s), chars) ELSE <<>>

RECURSIVE TakeUntil(_, _)
\* the longest prefix of s with no character of `stop`
TakeUntil(s, stop) ==
    IF s # <<>> /\ Head(s) \notin stop
    THEN <<Head(s)>> \o TakeUntil(Tail(s), stop) ELSE <<>>

Drop(s, n) == SubSeq(s, n + 1, Len(s))

\* what follows "(\w+)\s*:" in a stripped line; <<"nomatch">> when that prefix fails
AfterColon(line) ==
    LET name == TakeWhileIn(line, WordChars)
        rest == LStripSet(Drop(line, Len(name)), WS)
    IN IF name # <<>> /\ rest # <<>> /\ Head(rest) = ":"
       THEN Tail(rest) ELSE <<"nomatch">>

\* group 2 of "\s*([^,]+)": the text up to the first comma, any comma
TypeText(rest) == TakeUntil(rest, {","})

\* re.match(r"(\w+)\s*:\s*([^,]+)", line): the field as a one-element sequence,
\* the empty sequence when the line does not match
FieldMatch(line) ==
    LET rest == AfterColon(line) IN
    IF rest = <<"nomatch">> \/ TypeText(rest) = <<>> THEN <<>>
    ELSE << [name |-> TakeWhileIn(line, WordChars), type |-> Strip(TypeText(rest))] >>

\* one iteration of "for line in body.split('\n')"
FieldOf(rawline) ==
    LET line == Strip(rawline) IN
    IF line # <<>> /\ ~StartsWith(line, <<"/", "/">>) THEN FieldMatch(line) ELSE <<>>

RECURSIVE ParseFields(_)
ParseFields(body) ==
    IF body = <<>> THEN <<>> ELSE FieldOf(Head(body)) \o ParseFields(Tail(body))

\* the body lines the run draws from
Indent == <<" ", " ">>
FieldLineSet ==
    { Indent \o <<"n", ":", " ", "S", ",">>,
      Indent \o <<"m", ":", " ", "H", "<", "S", ",", " ", "u", ">", ",">>,
      Indent \o <<"b", " ", ":", " ", "u">>,
      Indent \o <<"p", "u", "b", " ", "p", ":", " ", "u", ",">>,
      Indent \o <<"/", "/", "/", " ", "a">>,
      <<>> }

FieldIdle == fBody = <<>> /\ fPc = "idle" /\ fI = 1 /\ fields = <<>>

InitFields_own ==
    /\ fBody \in SeqsUpTo(FieldLineSet, MaxBodyLines)
    /\ fPc = "parse"
    /\ fI = 1
    /\ fields = <<>>

FieldStep ==
    /\ fPc = "parse"
    /\ fI <= Len(fBody)
    /\ fields' = fields \o FieldOf(fBody[fI])
    /\ fI' = fI + 1
    /\ UNCHANGED <<fBody, fPc>>
    /\ UNCHANGED <<normVars, docVars, mainVars>>

\* result["structs"].append({"name": name, "docs": docs, "fields": fields})
FieldsDone ==
    /\ fPc = "parse"
    /\ fI > Len(fBody)
    /\ fPc' = "done"
    /\ UNCHANGED <<fBody, fI, fields>>
    /\ UNCHANGED <<normVars, docVars, mainVars>>

(***************************************************************************)
(* Source text for the extractor.  A file's content is a sequence of       *)
(* tokens, the pieces of text the patterns of extract_from_file tell       *)
(* apart: a "///" line, a "//!" line, a "pub struct Name" header, an       *)
(* "impl Name" header, a "pub fn name(params) -> ret" header, "{", "}",    *)
(* and any other line of text.                                             *)
(***************************************************************************)
Tok(t, name, text, params, ret) ==
    [t |-> t, name |-> name, text |-> text, params |-> params, ret |-> ret]

Open == Tok("{", <<>>, <<>>, <<>>, <<>>)
Close == Tok("}", <<>>, <<>>, <<>>, <<>>)
DocTok(indent) == Tok("doc", <<>>, indent \o DocMarker \o <<" ", "a">>, <<>>, <<>>)
ModDocTok == Tok("moddoc", <<>>, ModLine(<<"a">>), <<>>, <<>>)
TextTok(text) == Tok("line", <<>>, text, <<>>, <<>>)

RECURSIVE DocsBefore(_, _)
\* the group (?:///[^\n]*\n\s*)* that ends right before token j: its "///" lines
DocsBefore(content, j) ==
    IF j > 1 /\ content[j - 1].t = "doc"
    THEN Append(DocsBefore(content, j - 1), content[j - 1].text)
    ELSE <<>>

\* match.group("docs").split("\n"): the match starts at the first "///", and the
\* whitespace after the last line break is the last element
GroupLines(lines) ==
    IF lines = <<>> THEN <<>>
    ELSE <<LStripSet(Head(lines), WS)>> \o Tail(lines) \o << <<>> >>

DefaultReturn == <<"-", ">", " ", "(", ")">>

\* the record built from the "pub fn" header at token j
CallableAt(content, j) ==
    [ name |-> content[j].name,
      docs |-> clean_rustdoc(GroupLines(DocsBefore(content, j))),
      params |-> Strip(content[j].params),
      return |-> Strip(IF content[j].ret = <<>> THEN DefaultReturn ELSE content[j].ret) ]

RECURSIVE CallablesFrom(_, _)
\* re.finditer(func_pattern / method_pattern, text): every "pub fn" header of the text
CallablesFrom(content, j) ==
    IF j > Len(content) THEN <<>>
    ELSE (IF content[j].t = "fn" THEN <<CallableAt(content, j)>> ELSE <<>>)
         \o CallablesFrom(content, j + 1)

\* the position of the first "}" at or after k, 0 when there is none
RECURSIVE FirstClose(_, _)
FirstClose(content, k) ==
    IF k > Len(content) THEN 0
    ELSE IF content[k].t = "}" THEN k ELSE FirstClose(content, k + 1)

\* header at j, "{" at j + 1, and "[^}]*\}" finds its "}"
BlockAt(content, j, header) ==
    /\ content[j].t = header
    /\ j + 1 <= Len(content)
    /\ content[j + 1].t = "{"
    /\ FirstClose(content, j + 2) # 0

\* (?P<body>[^}]*): the tokens between the "{" and the first "}" after it
BlockBody(content, j) == SubSeq(content, j + 2, FirstClose(content, j + 2) - 1)

RECURSIVE ImplMethodsFrom(_, _)
\* re.finditer(impl_pattern, content), and method_pattern over each body
ImplMethodsFrom(content, j) ==
    IF j > Len(content) THEN <<>>
    ELSE IF BlockAt(content, j, "impl")
         THEN CallablesFrom(BlockBody(content, j), 1)
              \o ImplMethodsFrom(content, FirstClose(content, j + 2) + 1)
         ELSE ImplMethodsFrom(content, j + 1)

RECURSIVE TextsOf(_)
TextsOf(toks) == IF toks = <<>> THEN <<>> ELSE <<Head(toks).text>> \o TextsOf(Tail(toks))

RECURSIVE StructsFrom(_, _)
\* re.finditer(struct_pattern, content): one or more "///" lines, then the header
StructsFrom(content, j) ==
    IF j > Len(content) THEN <<>>
    ELSE IF BlockAt(content, j, "struct") /\ DocsBefore(content, j) # <<>>
         THEN << [ name |-> content[j].name,
                   docs |-> clean_rustdoc(GroupLines(DocsBefore(content, j))),
                   fields |-> ParseFields(TextsOf(BlockBody(content, j))) ] >>
              \o StructsFrom(content, FirstClose(content, j + 2) + 1)
         ELSE StructsFrom(content, j + 1)

RECURSIVE ModDocLines(_)
\* re.findall(module_doc_pattern, content) joined: every line that starts with "//!"
ModDocLines(content) ==
    IF content = <<>> THEN <<>>
    ELSE (IF Head(content).t = "moddoc" THEN <<Head(content).text>> ELSE <<>>)
         \o ModDocLines(Tail(content))

extract_from_file(content) ==
    [ module_doc |-> clean_rustdoc(ModDocLines(content)),
      structs |-> StructsFrom(content, 1),
      impls |-> ImplMethodsFrom(content, 1),
      functions |-> CallablesFrom(content, 1) ]

(***************************************************************************)
(* The declarations a source file is written from, and their text.         *)
(***************************************************************************)
N_new_widget == <<"n", "e", "w", "_", "w", "i", "d", "g", "e", "t">>
N_New == <<"N", "e", "w">>
N_render == <<"r", "e", "n", "d", "e", "r">>
N_draw == <<"d", "r", "a", "w">>
N_from == <<"f", "r", "o", "m">>
N_W == <<"W">>
RetW == <<"-", ">", " ", "W", " ">>

Item(kind, name, documented, methods) ==
    [kind |-> kind, name |-> name, documented |-> documented, methods |-> methods]

StructItem == Item("struct", N_W, TRUE, <<>>)
FnItem(name, documented) == Item("fn", name, documented, <<>>)
ImplItem(methods) == Item("impl", N_W, FALSE, methods)
Method(name, documented) == [name |-> name, documented |-> documented]

\* [/// a] pub fn name() [-> W] { }
FnText(name, documented, indent) ==
    (IF documented THEN <<DocTok(indent)>> ELSE <<>>)
    \o << Tok("fn", name, <<>>, <<>>, IF name = N_new_widget THEN RetW ELSE <<>>),
          Open, Close >>

RECURSIVE MethodsText(_)
MethodsText(ms) ==
    IF ms = <<>> THEN <<>>
    ELSE FnText(Head(ms).name, Head(ms).documented, Indent) \o MethodsText(Tail(ms))

\* /// a
\* pub struct W {
\*   n: S,
\*   b : u
\* }
StructText ==
    << DocTok(<<>>), Tok("struct", N_W, <<>>, <<>>, <<>>), Open,
       TextTok(Indent \o <<"n", ":", " ", "S", ",">>),
       TextTok(Indent \o <<"b", " ", ":", " ", "u">>),
       Close >>

ItemText(item) ==
    IF item.kind = "struct" THEN StructText
    ELSE IF item.kind = "fn" THEN FnText(item.name, item.documented, <<>>)
    ELSE <<Tok("impl", item.name, <<>>, <<>>, <<>>), Open>>
         \o MethodsText(item.methods) \o <<Close>>

RECURSIVE ItemsText(_)
ItemsText(items) ==
    IF items = <<>> THEN <<>> ELSE ItemText(Head(items)) \o ItemsText(Tail(items))

\* the text of mod.rs opens with a "//! a" line
ModText(items) == <<ModDocTok>> \o ItemsText(items)

ItemSet ==
    { StructItem,
      FnItem(N_new_widget, TRUE), FnItem(N_new_widget, FALSE),
      FnItem(N_render, TRUE), FnItem(N_render, FALSE),
      ImplItem(<<Method(N_draw, TRUE)>>),
      ImplItem(<<Method(N_draw, TRUE), Method(N_from, FALSE)>>) }

(***************************************************************************)
(* generate_mdx_from_rustdata.  The document is a sequence of elements:    *)
(* the front matter, headings, prose, table rows and per-callable entries. *)
(***************************************************************************)
El(k, name, text, params, ret) ==
    [k |-> k, name |-> name, text |-> text, params |-> params, ret |-> ret]

Title == <<"W">>

RECURSIVE Lower(_)
\* str.lower(), on the letters the model uses
Lower(s) ==
    IF s = <<>> THEN <<>>
    ELSE << CASE Head(s) = "N" -> "n" [] Head(s) = "W" -> "w" [] Head(s) = "S" -> "s"
              [] Head(s) = "H" -> "h" [] OTHER -> Head(s) >> \o Lower(Tail(s))

CtorWords ==
    { <<"n", "e", "w">>, <<"c", "r", "e", "a", "t", "e">>, <<"f", "r", "o", "m">> }

\* any(c in f["name"].lower() for c in ["new", "create", "from"])
IsCtorName(name) == \E c \in CtorWords : Contains(Lower(name), c)

\* the mutant: two callables compare equal whatever their names
InList_ignoringName(f, list) ==
    \E i \in 1..Len(list) :
        /\ list[i].docs = f.docs
        /\ list[i].params = f.params
        /\ list[i].return = f.return

\* f in list: list membership by ==
InList(f, list) == \E i \in 1..Len(list) : list[i] = f

RECURSIVE Constructors(_)
Constructors(functions) ==
    IF functions = <<>> THEN <<>>
    ELSE (IF IsCtorName(Head(functions).name) THEN <<Head(functions)>> ELSE <<>>)
         \o Constructors(Tail(functions))

RECURSIVE OtherFuncs(_, _)
\* [f for f in data["functions"] if f not in constructors]
OtherFuncs(functions, ctors) ==
    IF functions = <<>> THEN <<>>
    ELSE (IF ~InList(Head(functions), ctors) THEN <<Head(functions)>> ELSE <<>>)
         \o OtherFuncs(Tail(functions), ctors)

\* if func["docs"]:
HasDocs(f) == f.docs # <<>>

Entry(f) == El("entry", f.name, f.docs, f.params, f.return)

RECURSIVE Entries(_)
Entries(list) ==
    IF list = <<>> THEN <<>>
    ELSE (IF HasDocs(Head(list)) THEN <<Entry(Head(list))>> ELSE <<>>)
         \o Entries(Tail(list))

\* if list: mdx += "## <heading>\n\n", then the entries
Section(heading, list) ==
    IF list # <<>> THEN <<El(heading, <<>>, <<>>, <<>>, <<>>)>> \o Entries(list)
    ELSE <<>>

RECURSIVE Rows(_)
Rows(fs) ==
    IF fs = <<>> THEN <<>>
    ELSE <<El("row", Head(fs).name, Head(fs).type, <<>>, <<>>)>> \o Rows(Tail(fs))

RECURSIVE StructSections(_)
StructSections(structs) ==
    IF structs = <<>> THEN <<>>
    ELSE << El("h2_Struct", Head(structs).name, Head(structs).docs, <<>>, <<>>),
            El("h3_Fields", <<>>, <<>>, <<>>, <<>>) >>
         \o Rows(Head(structs).fields) \o StructSections(Tail(structs))

Head_mdx(name, data) ==
    << El("front", name, <<>>, <<>>, <<>>),
       El("h1", name, <<>>, <<>>, <<>>),
       El("prose", <<>>, format_rustdoc_to_markdown(data.module_doc), <<>>, <<>>) >>

(***************************************************************************)
(* The component run: scan_component on a component directory, then        *)
(* generate_mdx_from_rustdata and the report line of scan_directory.       *)
(***************************************************************************)
EmptyData == [module_doc |-> <<>>, structs |-> <<>>, impls |-> <<>>, functions |-> <<>>]
NoFile == [exists |-> FALSE, items |-> <<>>]
NoReport == [methods |-> 0 - 1, functions |-> 0 - 1]

Contents == SeqsUpTo(ItemSet, MaxItems)

RECURSIVE TotalItems(_)
TotalItems(files) ==
    IF files = <<>> THEN 0 ELSE Len(Head(files)) + TotalItems(Tail(files))

\* a component directory: mod.rs (or none) and the other .rs files of the tree
DirSet ==
    { [mod |-> m, others |-> fs] :
        m \in {NoFile} \cup {[exists |-> TRUE, items |-> c] : c \in Contents},
        fs \in {f \in SeqsUpTo(Contents, MaxFiles) : TotalItems(f) <= MaxItems} }

DocIdle ==
    /\ dir = [mod |-> NoFile, others |-> <<>>] /\ dPc = "idle" /\ toScan = {}
    /\ combined_data = EmptyData /\ constructors = <<>> /\ other_funcs = <<>>
    /\ mdx = <<>> /\ report = NoReport

InitDocs_own ==
    /\ dir \in DirSet
    /\ dPc = "scan_mod"
    /\ toScan = 1..Len(dir.others)
    /\ combined_data = EmptyData
    /\ constructors = <<>>
    /\ other_funcs = <<>>
    /\ mdx = <<>>
    /\ report = NoReport

\* scan_component: "main_mod = component_dir / 'mod.rs'; if main_mod.exists(): ..."
ScanMod ==
    /\ dPc = "scan_mod"
    /\ combined_data' =
         IF dir.mod.exists
         THEN LET data == extract_from_file(ModText(dir.mod.items)) IN
              [combined_data EXCEPT !.module_doc = data.module_doc,
                                    !.structs = @ \o data.structs]
         ELSE combined_data
    /\ dPc' = "scan_files"
    /\ UNCHANGED <<dir, toScan, constructors, other_funcs, mdx, report>>
    /\ UNCHANGED <<normVars, fieldVars, mainVars>>

\* one iteration of "for rust_file in component_dir.rglob('*.rs')" on a file that is
\* not named mod.rs; the order of the files is the file system's
ScanFile ==
    /\ dPc = "scan_files"
    /\ \E k \in toScan :
         LET data == extract_from_file(ItemsText(dir.others[k])) IN
         /\ combined_data' = [combined_data EXCEPT !.impls = @ \o data.impls,
                                                   !.functions = @ \o data.functions]
         /\ toScan' = toScan \ {k}
    /\ UNCHANGED <<dir, dPc, constructors, other_funcs, mdx, report>>
    /\ UNCHANGED <<normVars, fieldVars, mainVars>>

\* return combined_data
ScanReturn ==
    /\ dPc = "scan_files"
    /\ toScan = {}
    /\ dPc' = "head"
    /\ UNCHANGED <<dir, toScan, combined_data, constructors, other_funcs, mdx, report>>
    /\ UNCHANGED <<normVars, fieldVars, mainVars>>

RenderHead ==
    /\ dPc = "head"
    /\ mdx' = Head_mdx(Title, combined_data)
    /\ dPc' = "structs"
    /\ UNCHANGED <<dir, toScan, combined_data, constructors, other_funcs, report>>
    /\ UNCHANGED <<normVars, fieldVars, mainVars>>

RenderStructs ==
    /\ dPc = "structs"
    /\ mdx' = mdx \o StructSections(combined_data.structs)
    /\ dPc' = "constructors"
    /\ UNCHANGED <<dir, toScan, combined_data, constructors, other_funcs, report>>
    /\ UNCHANGED <<normVars, fieldVars, mainVars>>

RenderConstructors ==
    /\ dPc = "constructors"
    /\ constructors' = Constructors(combined_data.functions)
    /\ mdx' = mdx \o Section("h2_Constructors", constructors')
    /\ dPc' = "functions"
    /\ UNCHANGED <<dir, toScan, combined_data, other_funcs, report>>
    /\ UNCHANGED <<normVars, fieldVars, mainVars>>

RenderFunctions ==
    /\ dPc = "functions"
    /\ other_funcs' = OtherFuncs(combined_data.functions, constructors)
    /\ mdx' = mdx \o Section("h2_Functions", other_funcs')
    /\ dPc' = "methods"
    /\ UNCHANGED <<dir, toScan, combined_data, constructors, report>>
    /\ UNCHANGED <<normVars, fieldVars, mainVars>>

RenderMethods ==
    /\ dPc = "methods"
    /\ mdx' = mdx \o Section("h2_Methods", combined_data.impls)
    /\ dPc' = "report"
    /\ UNCHANGED <<dir, toScan, combined_data, constructors, other_funcs, report>>
    /\ UNCHANGED <<normVars, fieldVars, mainVars>>

\* scan_directory: the file is written and the counts are printed
Report ==
    /\ dPc = "report"
    /\ report' = [methods |-> Len(combined_data.impls),
                  functions |-> Len(combined_data.functions)]
    /\ dPc' = "done"
    /\ UNCHANGED <<dir, toScan, combined_data, constructors, other_funcs, mdx>>
    /\ UNCHANGED <<normVars, fieldVars, mainVars>>

(***************************************************************************)
(* The renderer alone, on the records extraction can produce.              *)
(***************************************************************************)
DocsA == <<<<"a">>>>
Callable(name, docs) ==
    [name |-> name, docs |-> docs, params |-> <<>>, return |-> DefaultReturn]

CallableSet ==
    { Callable(n, d) : n \in {N_new_widget, N_New, N_render}, d \in {<<>>, DocsA} }
MethodSet == { Callable(N_draw, d) : d \in {<<>>, DocsA} }
StructRec ==
    [ name |-> N_W, docs |-> DocsA,
      fields |-> << [name |-> <<"n">>, type |-> <<"S">>] >> ]

InitRender_own ==
    /\ dir = [mod |-> NoFile, others |-> <<>>]
    /\ dPc = "head"
    /\ toScan = {}
    /\ \E fs \in SeqsUpTo(CallableSet, MaxFuncs), ms \in SeqsUpTo(MethodSet, MaxMethods),
          ss \in {<<>>, <<StructRec>>} :
         combined_data = [module_doc |-> DocsA, structs |-> ss, impls |-> ms,
                          functions |-> fs]
    /\ constructors = <<>>
    /\ other_funcs = <<>>
    /\ mdx = <<>>
    /\ report = NoReport

(***************************************************************************)
(* main and scan_directory: the source tree and the output tree.           *)
(***************************************************************************)
\* the categories, in the order main scans them
Categories == <<"primitives", "services", "widgets">>
CategorySet == {Categories[i] : i \in 1..Len(Categories)}

\* what a category directory may hold: a component directory with a mod.rs, and a
\* directory without one
Entries_withMod == {"a_b"}
Entries_noMod == {"c"}
EntrySet == Entries_withMod \cup Entries_noMod

\* item.name.replace("_", "-")
Hyphenate(name) == IF name = "a_b" THEN "a-b" ELSE name

Path(cat, name) == [cat |-> cat, name |-> name]

At(stage, i, entry) == [stage |-> stage, i |-> i, entry |-> entry]
Finished(pc) == At("done", 0, pc.entry)
Crashed(pc) == At("crashed", 0, pc.entry)

\* where control goes when the statement at pc completes
Advance(pc) ==
    IF pc.entry = "scan_directory" THEN Finished(pc)
    ELSE IF pc.i < Len(Categories) THEN At(pc.stage, pc.i + 1, pc.entry)
    ELSE IF pc.stage = "index" THEN At("scan", 1, pc.entry)
    ELSE Finished(pc)

\* the mutant: a missing category directory raises instead of returning
MissingReturns_raises(pc) == Crashed(pc)

\* scan_directory: "if not cat_dir.exists(): print(...); return"
MissingReturns(pc) == Advance(pc)

MainIdle ==
    /\ srcTree = [c \in CategorySet |-> [exists |-> FALSE, entries |-> {}]]
    /\ outDirs = {} /\ outFiles = {} /\ mPc = At("idle", 0, "") /\ calls = <<>>

InitMain_own ==
    /\ srcTree \in [CategorySet ->
                      {[exists |-> FALSE, entries |-> {}]}
                      \cup {[exists |-> TRUE, entries |-> e] : e \in SUBSET EntrySet}]
    /\ outDirs \in SUBSET CategorySet
    /\ outFiles = {}
    \* main(), or scan_directory called on one category
    /\ mPc \in {At("index", 1, "main")}
               \cup {At("scan", i, "scan_directory") : i \in 1..Len(Categories)}
    /\ calls = <<>>

\* main: (DOCS_OUTPUT_DIR / category / "index.mdx").write_text(...)
WriteIndex ==
    /\ mPc.stage = "index"
    /\ Categories[mPc.i] \in outDirs
    /\ outFiles' = outFiles \cup {Path(Categories[mPc.i], "index")}
    /\ mPc' = Advance(mPc)
    /\ UNCHANGED <<srcTree, outDirs, calls>>
    /\ UNCHANGED <<normVars, fieldVars, docVars>>

\* write_text raises FileNotFoundError when the output category directory is missing
WriteIndexFails ==
    /\ mPc.stage = "index"
    /\ Categories[mPc.i] \notin outDirs
    /\ mPc' = Crashed(mPc)
    /\ UNCHANGED <<srcTree, outDirs, outFiles, calls>>
    /\ UNCHANGED <<normVars, fieldVars, docVars>>

\* scan_directory on a category whose source directory does not exist
ScanMissing ==
    /\ mPc.stage = "scan"
    /\ ~srcTree[Categories[mPc.i]].exists
    /\ calls' = Append(calls, <<Categories[mPc.i], "directory not found">>)
    /\ mPc' = MissingReturns(mPc)
    /\ UNCHANGED <<srcTree, outDirs, outFiles>>
    /\ UNCHANGED <<normVars, fieldVars, docVars>>

\* scan_directory on an existing category: mkdir(exist_ok=True), then one document
\* per entry that is a directory with a mod.rs
ScanExisting ==
    /\ mPc.stage = "scan"
    /\ srcTree[Categories[mPc.i]].exists
    /\ LET cat == Categories[mPc.i] IN
       /\ outDirs' = outDirs \cup {cat}
       /\ outFiles' = outFiles \cup
            {Path(cat, Hyphenate(e)) : e \in srcTree[cat].entries \cap Entries_withMod}
       /\ calls' = Append(calls, <<cat, "scanned">>)
    /\ mPc' = Advance(mPc)
    /\ UNCHANGED srcTree
    /\ UNCHANGED <<normVars, fieldVars, docVars>>

(***************************************************************************)
(* Specifications: one per run.  The variables of the other runs rest.     *)
(***************************************************************************)
InitNorm == InitNorm_own /\ FieldIdle /\ DocIdle /\ MainIdle
NextNorm == NormClean \/ FormatEmpty \/ FormatStep \/ FormatReturn
SpecNorm == InitNorm /\ [][NextNorm]_vars

InitFields == InitFields_own /\ NormIdle /\ DocIdle /\ MainIdle
NextFields == FieldStep \/ FieldsDone
SpecFields == InitFields /\ [][NextFields]_vars

InitRender == InitRender_own /\ NormIdle /\ FieldIdle /\ MainIdle
NextRender ==
    \/ RenderHead \/ RenderStructs \/ RenderConstructors \/ RenderFunctions
    \/ RenderMethods \/ Report
SpecRender == InitRender /\ [][NextRender]_vars

InitDocs == InitDocs_own /\ NormIdle /\ FieldIdle /\ MainIdle
NextDocs ==
    \/ ScanMod \/ ScanFile \/ ScanReturn
    \/ RenderHead \/ RenderStructs \/ RenderConstructors \/ RenderFunctions
    \/ RenderMethods \/ Report
SpecDocs == InitDocs /\ [][NextDocs]_vars

InitMain == InitMain_own /\ NormIdle /\ FieldIdle /\ DocIdle
NextMain == WriteIndex \/ WriteIndexFails \/ ScanMissing \/ ScanExisting
SpecMain == InitMain /\ [][NextMain]_vars

(***************************************************************************)
(* Properties of the normalizer (SpecNorm).                                *)
(***************************************************************************)
NormCleaned == nPc \in {"format", "done"}

AllModLines(x) == x # <<>> /\ \A i \in 1..Len(x) : StartsWith(x[i], ModMarker)

\* the text of a "//!" line after its marker, without the surrounding whitespace
MarkerContent(line) == Strip(Drop(line, Len(ModMarker)))

NonBlank(l) == l # <<>>

\* C4: when every line of the comment block begins with "//!", clean_rustdoc yields,
\* in order, the text after the marker of every line where that text is not blank,
\* with no character of that text removed, whatever it starts with.
C4_ModMarkerOnlyStripped ==
    (NormCleaned /\ AllModLines(nIn))
        => nClean = FilterSeq(NonBlank, MapSeq(MarkerContent, nIn))

NoMarkers(x) ==
    \A i \in 1..Len(x) :
        ~StartsWith(Strip(x[i]), ModMarker) /\ ~StartsWith(Strip(x[i]), DocMarker)

\* C5 as stated: normalizing the normalizer's output changes nothing, provided the
\* output has no doc-marker prefix.
C5_Idempotent ==
    (nPc = "done" /\ NoMarkers(nOut)) => Normalize(nOut) = nOut

\* the number of lines before line i that begin with a triple backquote
FencesBefore(lines, i) ==
    Cardinality({j \in 1..(i - 1) : StartsWith(Strip(lines[j]), Fence)})

InsideCodeBlock(lines, i) == FencesBefore(lines, i) % 2 = 1

NoHeadingOutsideFence(x) ==
    \A i \in 1..Len(x) : StartsWith(Strip(x[i]), <<"#">>) => InsideCodeBlock(x, i)

NoFenceTagToRewrite(x) ==
    \A i \in 1..Len(x) :
        StartsWith(Strip(x[i]), Fence)
            => ~Contains(x[i], RustNoRun) /\ ~Contains(x[i], RustIgnore)

\* C5 as amended: normalizing the normalizer's output changes nothing, provided the
\* output has no doc-marker prefix, no heading line outside a fenced code block and
\* no fence line that still carries a rust,no_run or rust,ignore tag.
C5_IdempotentWithoutHeadings ==
    (nPc = "done" /\ NoMarkers(nOut) /\ NoHeadingOutsideFence(nOut)
       /\ NoFenceTagToRewrite(nOut))
        => Normalize(nOut) = nOut

\* a run that rewrote a "*" item and a fence tag, kept a "#" line inside the fence,
\* and whose output the second normalization leaves alone
C5_Witness ==
    /\ nPc = "done"
    /\ nOut # nClean
    /\ \E i \in 1..Len(nOut) : StartsWith(nOut[i], <<"#">>) /\ InsideCodeBlock(nOut, i)
    /\ NoMarkers(nOut) /\ NoHeadingOutsideFence(nOut) /\ NoFenceTagToRewrite(nOut)

\* line j lies strictly between an opening fence and its closing fence
StrictlyInsideFence(lines, j) ==
    /\ ~StartsWith(Strip(lines[j]), Fence)
    /\ InsideCodeBlock(lines, j)
    /\ \E k \in (j + 1)..Len(lines) : StartsWith(Strip(lines[k]), Fence)

\* C6: the flag is false at the start and toggles exactly on the lines that begin
\* with a triple backquote, and every line strictly between an opening fence and its
\* closing fence is emitted as it came in, whatever it starts with.
C6_FenceContentUnaltered ==
    NormCleaned =>
        /\ code_block = InsideCodeBlock(nClean, nI)
        /\ \A j \in 1..Len(nOut) :
              StrictlyInsideFence(nClean, j) => nOut[j] = nClean[j]

\* a finished run with a "#" line between two fences
C6_Witness ==
    /\ nPc = "done"
    /\ \E j \in 1..Len(nClean) :
          StrictlyInsideFence(nClean, j) /\ StartsWith(nClean[j], <<"#">>)

(***************************************************************************)
(* Properties of the field loop (SpecFields).                              *)
(***************************************************************************)
RECURSIVE TopLevelPrefix(_, _)
\* the text up to the first comma that is not nested inside <>, () or []
TopLevelPrefix(s, depth) ==
    IF s = <<>> \/ (Head(s) = "," /\ depth = 0) THEN <<>>
    ELSE <<Head(s)>> \o
         TopLevelPrefix(Tail(s),
             IF Head(s) \in {"<", "(", "["} THEN depth + 1
             ELSE IF Head(s) \in {">", ")", "]"} THEN depth - 1 ELSE depth)

\* the field a body line declares when it has the form "name: type"
DeclaredField(rawline) ==
    LET line == Strip(rawline)
        rest == AfterColon(line)
    IN IF line = <<>> \/ StartsWith(line, <<"/", "/">>) \/ rest = <<"nomatch">>
          \/ Strip(TopLevelPrefix(rest, 0)) = <<>>
       THEN <<>>
       ELSE << [name |-> TakeWhileIn(line, WordChars),
                type |-> Strip(TopLevelPrefix(rest, 0))] >>

RECURSIVE DeclaredFields(_)
DeclaredFields(body) ==
    IF body = <<>> THEN <<>> ELSE DeclaredField(Head(body)) \o DeclaredFields(Tail(body))

\* C7: the fields of the record are, in source order, one per body line of the form
\* "name: type", with the name before the first colon and the type up to the next
\* top-level comma (a comma nested in the type does not end it); other lines emit
\* no field and do not stop the parse.
C7_FieldsUpToTopLevelComma ==
    fPc = "done" => fields = DeclaredFields(fBody)

(***************************************************************************)
(* Properties of the renderer (SpecRender) and of the component run        *)
(* (SpecDocs).                                                             *)
(***************************************************************************)
\* the name rule of the Constructors subsection: the name contains "new", "create"
\* or "from", whatever the case of its letters
NameRule(name) ==
    \E c \in CtorWords : Contains(Lower(name), c)

RECURSIVE Keep(_, _)
\* the callables of list on side `ctor` of the name rule, in order
Keep(list, ctor) ==
    IF list = <<>> THEN <<>>
    ELSE (IF NameRule(Head(list).name) = ctor THEN <<Head(list)>> ELSE <<>>)
         \o Keep(Tail(list), ctor)

HasHeading(k) == \E i \in 1..Len(mdx) : mdx[i].k = k
CountOf(k) == Cardinality({i \in 1..Len(mdx) : mdx[i].k = k})

H2Kinds == {"h2_Struct", "h2_Constructors", "h2_Functions", "h2_Methods"}

\* the subsection element i of the document belongs to
SectionOf(i) ==
    LET hs == {h \in 1..(i - 1) : mdx[h].k \in H2Kinds} IN
    IF hs = {} THEN "none"
    ELSE mdx[CHOOSE h \in hs : \A g \in hs : g <= h].k

\* the entries of subsection k, in document order
EntriesUnder(k) ==
    LET F[i \in 0..Len(mdx)] ==
          IF i = 0 THEN <<>>
          ELSE IF mdx[i].k = "entry" /\ SectionOf(i) = k THEN Append(F[i - 1], mdx[i])
          ELSE F[i - 1]
    IN F[Len(mdx)]

Documented(list) == \E i \in 1..Len(list) : list[i].docs # <<>>

\* C2: at the end of generate_mdx_from_rustdata each of the headings Constructors,
\* Functions and Methods is in the document if and only if a callable of that
\* subsection has non-empty documentation (on the matching side of the name rule).
C2_HeadingIffQualifying ==
    dPc = "done" =>
        /\ HasHeading("h2_Constructors")
             <=> Documented(Keep(combined_data.functions, TRUE))
        /\ HasHeading("h2_Functions")
             <=> Documented(Keep(combined_data.functions, FALSE))
        /\ HasHeading("h2_Methods") <=> Documented(combined_data.impls)

\* C10: the complement built by "f not in constructors" is, in order and
\* multiplicity, the list of the functions that fail the name rule, and the
\* constructors are those that pass it: every function is in exactly one list.
C10_ComplementByEqualityIsByName ==
    dPc \in {"methods", "report", "done"} =>
        /\ constructors = Keep(combined_data.functions, TRUE)
        /\ other_funcs = Keep(combined_data.functions, FALSE)
        /\ Len(constructors) + Len(other_funcs) = Len(combined_data.functions)

\* a finished rendering of a function sequence with two structurally identical
\* callables and both lists non-empty
C10_Witness ==
    /\ dPc = "done"
    /\ \E i, j \in 1..Len(combined_data.functions) :
          i < j /\ combined_data.functions[i] = combined_data.functions[j]
    /\ constructors # <<>>
    /\ other_funcs # <<>>

\* ---- what the files of the component directory declare ----
RECURSIVE DeclaredIn(_)
\* the public callables a file declares, in text order
DeclaredIn(items) ==
    IF items = <<>> THEN <<>>
    ELSE (IF Head(items).kind = "fn"
          THEN << [name |-> Head(items).name, documented |-> Head(items).documented,
                   free |-> TRUE] >>
          ELSE IF Head(items).kind = "impl"
          THEN [i \in 1..Len(Head(items).methods) |->
                  [name |-> Head(items).methods[i].name,
                   documented |-> Head(items).methods[i].documented, free |-> FALSE]]
          ELSE <<>>)
         \o DeclaredIn(Tail(items))

RECURSIVE DeclaredInAll(_)
DeclaredInAll(files) ==
    IF files = <<>> THEN <<>> ELSE DeclaredIn(Head(files)) \o DeclaredInAll(Tail(files))

HowMany(list, P(_)) == Cardinality({i \in 1..Len(list) : P(list[i])})

AllFiles == (IF dir.mod.exists THEN <<dir.mod.items>> ELSE <<>>) \o dir.others

IsFree(d) == d.free
IsMethod(d) == ~d.free
IsUndocumented(d) == ~d.documented
IsDocumentedMethod(d) == ~d.free /\ d.documented
NoDocs(f) == f.docs = <<>>

\* C1: a component directory of one source fragment that holds one documented struct
\* with 2 fields and one documented free function new_widget renders to a document
\* with exactly one "Struct:" subsection, a Constructors subsection with an entry
\* for new_widget, and neither a Functions nor a Methods subsection.
C1_SingleFragmentEndToEnd ==
    LET one == AllFiles IN
    ( /\ dPc = "done"
      /\ Len(one) = 1
      /\ one[1] \in { <<StructItem, FnItem(N_new_widget, TRUE)>>,
                      <<FnItem(N_new_widget, TRUE), StructItem>> } )
    => /\ CountOf("h2_Struct") = 1
       /\ HasHeading("h2_Constructors")
       /\ \E i \in 1..Len(mdx) :
             /\ mdx[i].k = "entry"
             /\ mdx[i].name = N_new_widget
             /\ SectionOf(i) = "h2_Constructors"
       /\ ~HasHeading("h2_Functions")
       /\ ~HasHeading("h2_Methods")

\* C3: every public callable declared without documentation, in any file of the
\* component, is recorded with empty documentation and so is part of the reported
\* counts; no entry is rendered for it; the documented callables of each list are
\* rendered in their order.
C3_UndocumentedCountedNotRendered ==
    dPc = "done" =>
        /\ HowMany(combined_data.impls \o combined_data.functions, NoDocs)
             >= HowMany(DeclaredInAll(AllFiles), IsUndocumented)
        /\ report.methods + report.functions >= Len(DeclaredInAll(AllFiles))
        /\ \A i \in 1..Len(mdx) : mdx[i].k = "entry" => mdx[i].text # <<>>
        /\ EntriesUnder("h2_Constructors") = Entries(constructors)
        /\ EntriesUnder("h2_Functions") = Entries(other_funcs)
        /\ EntriesUnder("h2_Methods") = Entries(combined_data.impls)

\* C9: the function sequence holds exactly the free-standing callables of the scanned
\* files and the method sequence exactly the callables declared in impl blocks; a
\* documented method is rendered once, under Methods, and under no other heading.
C9_MethodsNotAmongFunctions ==
    dPc = "done" =>
        /\ Len(combined_data.functions) = HowMany(DeclaredInAll(dir.others), IsFree)
        /\ Len(combined_data.impls) = HowMany(DeclaredInAll(dir.others), IsMethod)
        /\ \A i \in 1..Len(mdx) :
              (mdx[i].k = "entry" /\ mdx[i].name \in {N_draw, N_from})
                  => SectionOf(i) = "h2_Methods"
        /\ Len(EntriesUnder("h2_Methods"))
             = HowMany(DeclaredInAll(dir.others), IsDocumentedMethod)

(***************************************************************************)
(* Properties of main and scan_directory (SpecMain).                       *)
(***************************************************************************)
AtMissingCategory == mPc.stage = "scan" /\ ~srcTree[Categories[mPc.i]].exists

ComponentFiles(cat) == {f \in outFiles : f.cat = cat /\ f.name # "index"}

\* C8: scan_directory on a category whose source directory is missing writes no
\* file, creates no output directory and returns, whichever categories are missing;
\* so when main ends it has called scan_directory for primitives, services and
\* widgets in that order, has written no component document for a missing category
\* and has written the document of every component of each existing category.
C8_MissingCategorySkipped ==
    /\ [][AtMissingCategory =>
            /\ outFiles' = outFiles
            /\ outDirs' = outDirs
            /\ mPc' = Advance(mPc)]_vars
    /\ []((mPc.stage = "done" /\ mPc.entry = "main") =>
            /\ [i \in 1..Len(calls) |-> calls[i][1]] = Categories
            /\ \A c \in CategorySet :
                  IF srcTree[c].exists
                  THEN ComponentFiles(c) =
                         {Path(c, Hyphenate(e)) : e \in srcTree[c].entries \cap Entries_withMod}
                  ELSE ComponentFiles(c) = {})

\* main has ended with the first two categories missing and the component of the
\* third one rendered
C8_Witness ==
    /\ mPc.stage = "done" /\ mPc.entry = "main"
    /\ ~srcTree["primitives"].exists
    /\ ~srcTree["services"].exists
    /\ Path("widgets", "a-b") \in outFiles

====
